---- MODULE Spec2Model ----
(***************************************************************************)
(* A model of promkit's prompt core: the grapheme line wrapper, the pane   *)
(* viewport, the text editor, the selector navigation actions and the      *)
(* readline dispatch loop.  Each part has a specification of its own       *)
(* (SpecWrap, SpecPane, SpecEditor, SpecSelector, SpecReadline); the       *)
(* variables of the other parts keep their initial value there.            *)
(***************************************************************************)
EXTENDS Integers, Sequences, FiniteSets, TLC

\* A width and a grapheme sequence handed to matrixify, the layout it
\* returned, whether it has run, and what is_empty() said of the Pane made
\* of that layout.
VARIABLES mx_width, mx_g, mx_layout, mx_done, mx_empty

\* The build profile of the crate: with overflow checks (debug) or
\* without (release).
VARIABLES build

\* A Pane (layout, offset, fixed_height), the viewport height handed to
\* extract, and what extract returned.
VARIABLES layout, offset, fixed_height, viewport_height, extracted

\* The select prompt's State: its Selector (editor) and screen_position;
\* how the last action ended; the positions the current run of consecutive
\* move_up actions went through; what the last call of Selector::prev did;
\* the actions taken since the State was built (kept for the first few
\* actions only), each with whether it went through move_tail; what
\* Builder::build made of the builder ("NotBuilt" before it is called).
VARIABLES editor, screen_position, sel_result, up_trail, last_prev, sel_trail,
          sel_built, sel_lines

\* A TextEditor's text buffer, the event it handled last, the buffer as
\* it was before that event, and the events it handled since it was made
\* (kept for the first few events only); the terminal size handed to
\* gen_pane, the Pane it returned, and the rows extract returned for that
\* Pane at the terminal's height.
VARIABLES textbuffer, ed_event, ed_before, ed_trail, ed_size, ed_pane,
          ed_rows

\* The readline prompt: its Renderer (the active keymap, the widget
\* snapshots, the validator), the loop's position, the event read last,
\* the signal of the last evaluation, the panes rendered last, what
\* finalize returned, and what the last evaluation did.
VARIABLES renderer, pc, cur_event, signal, frame, returned, handled,
          last_validation

\* The tree prompt: its Renderer (the title and the tree snapshots), the
\* loop's position and what finalize returned.
VARIABLES tree_renderer, tree_pc, tree_returned

\* The checkbox State (its Checkbox: items, position, picked indexes; its
\* lines), the terminal size handed to create_pane and the Pane returned.
VARIABLES cb_checkbox, cb_lines, cb_size, cb_pane

mxVars == <<mx_width, mx_g, mx_layout, mx_done, mx_empty>>
paneVars == <<layout, offset, fixed_height, viewport_height, extracted>>
edVars == <<textbuffer, ed_event, ed_before, ed_trail, ed_size, ed_pane,
           ed_rows>>
selVars == <<editor, screen_position, sel_result, up_trail, last_prev,
            sel_trail, sel_built, sel_lines>>
rlVars == <<renderer, pc, cur_event, signal, frame, returned, handled,
           last_validation>>

treeVars == <<tree_renderer, tree_pc, tree_returned>>

cbVars == <<cb_checkbox, cb_lines, cb_size, cb_pane>>

vars == <<build, mxVars, paneVars, edVars, selVars, rlVars, treeVars, cbVars>>

(***************************************************************************)
(* Bounds of the model.                                                    *)
(***************************************************************************)
\* Longest grapheme sequence handed to matrixify.
MaxLen == 3
\* Widest terminal handed to matrixify.
MaxWidth == 3
\* Most rows of a Pane's layout.
MaxRows == 3
\* Most items of a Selector.
MaxItems == 5
\* Most lines selector_lines() reports.
MaxLines == 3
\* Columns and rows of the terminal the prompt renders to.
TermWidth == 2
TermHeight == 3
\* Most items of a Checkbox.
MaxBoxes == 3
\* Widest terminal a checkbox pane is made for; a full row takes 5 columns.
MaxCols == 5
\* Most runs of one tree prompt.
MaxRuns == 2
\* Longest text a TextEditor holds: no character is typed into a buffer
\* of this length.
MaxBuf == 3

(***************************************************************************)
(* grapheme.rs                                                             *)
(***************************************************************************)
\* The characters of the model: two narrow letters, an emoji that the
\* Unicode width table measures as 2 columns, and a control character that
\* the table cannot measure (UnicodeWidthChar::width gives None).
Chars == {"a", "b", "E", "Z"}

\* UnicodeWidthChar::width(c).unwrap_or(0)
UnicodeWidth(c) ==
    CASE c = "E" -> 2
      [] c = "Z" -> 0
      [] OTHER   -> 1

\* impl From<char> for Grapheme
Grapheme(c) == [ch |-> c, width |-> UnicodeWidth(c)]

\* Graphemes::from(string): string.chars().map(Grapheme::from).collect()
Graphemes(s) == [i \in 1..Len(s) |-> Grapheme(s[i])]

\* The fold over a row that sums the widths of its graphemes.
RECURSIVE widths(_)
widths(row) ==
    IF row = <<>> THEN 0 ELSE row[1].width + widths(Tail(row))

\* impl Display for Graphemes: the characters, in order.
RECURSIVE to_string(_)
to_string(gs) ==
    IF gs = <<>> THEN <<>> ELSE <<gs[1].ch>> \o to_string(Tail(gs))

\* A plausible slip in the loop body of matrixify: the row is closed on the
\* width it already has, without counting the grapheme about to be pushed.
matrixify_step_no_lookahead(width, st, ch) ==
    LET width_with_next_char == widths(st.row)
        st1 == IF st.row # <<>> /\ width < width_with_next_char
               THEN [ret |-> Append(st.ret, st.row), row |-> <<>>]
               ELSE st
    IN  IF width >= ch.width
        THEN [st1 EXCEPT !.row = Append(@, ch)]
        ELSE st1

\* A plausible slip in the loop body of matrixify: the grapheme is pushed
\* without comparing its own width with the terminal's.
matrixify_step_no_drop(width, st, ch) ==
    LET width_with_next_char == widths(st.row) + ch.width
        st1 == IF st.row # <<>> /\ width < width_with_next_char
               THEN [ret |-> Append(st.ret, st.row), row |-> <<>>]
               ELSE st
    IN  [st1 EXCEPT !.row = Append(@, ch)]

\* One iteration of the loop of matrixify over the graphemes of g.
matrixify_step(width, st, ch) ==
    LET width_with_next_char == widths(st.row) + ch.width
        st1 == IF st.row # <<>> /\ width < width_with_next_char
               THEN [ret |-> Append(st.ret, st.row), row |-> <<>>]
               ELSE st
    IN  IF width >= ch.width
        THEN [st1 EXCEPT !.row = Append(@, ch)]
        ELSE st1

RECURSIVE matrixify_loop(_, _, _)
matrixify_loop(width, st, g) ==
    IF g = <<>> THEN st
    ELSE matrixify_loop(width, matrixify_step(width, st, g[1]), Tail(g))

\* pub fn matrixify(width: usize, g: Graphemes) -> Vec<Graphemes>
matrixify(width, g) ==
    LET st == matrixify_loop(width, [ret |-> <<>>, row |-> <<>>], g)
    IN  Append(st.ret, st.row)

\* The rows of a layout joined in order.
RECURSIVE Concat(_)
Concat(rows) ==
    IF rows = <<>> THEN <<>> ELSE rows[1] \o Concat(Tail(rows))

\* All sequences over S of length at most n.
SeqsUpTo(S, n) == UNION {[1..k -> S] : k \in 0..n}

(***************************************************************************)
(* pane.rs                                                                 *)
(***************************************************************************)
\* usize is as wide as the target's pointers.  The model takes the
\* narrowest target Rust has, 16 bits, so that usize::MAX is a number TLC
\* can hold; a sum leaves the type the same way at every width.
UsizeBits == 16
UsizeMax == 2^UsizeBits - 1

\* Option<usize>
None == <<>>
Some(x) == <<x>>
unwrap_or(opt, default) == IF opt = None THEN default ELSE opt[1]

Min(a, b) == IF a <= b THEN a ELSE b

\* usize::saturating_sub
saturating_sub(a, b) == IF a >= b THEN a - b ELSE 0

\* The rows of rows whose 0-based index i has start <= i < end, in order:
\* iter().enumerate().filter(..).map(|(_, row)| row.clone()).collect()
RECURSIVE filter_rows(_, _, _, _)
filter_rows(rows, i, start, end) ==
    IF rows = <<>> THEN <<>>
    ELSE (IF start <= i /\ i < end THEN <<rows[1]>> ELSE <<>>)
         \o filter_rows(Tail(rows), i + 1, start, end)

\* let lines = self.layout.len().min(self.fixed_height
\*     .unwrap_or(viewport_height).min(viewport_height));
extract_lines(rows, fixed, viewport) ==
    Min(Len(rows), Min(unwrap_or(fixed, viewport), viewport))

\* Pane::extract.  `self.offset + lines` is a plain usize addition: when the
\* sum does not fit, a build with overflow checks (debug) panics and a
\* build without them (release) wraps.
extract(rows, off, fixed, viewport, profile) ==
    LET lines == extract_lines(rows, fixed, viewport)
        sum   == off + lines
        end   == sum % (UsizeMax + 1)
        start == IF end > Len(rows)
                 THEN saturating_sub(Len(rows), lines)
                 ELSE off
    IN  IF sum > UsizeMax /\ profile = "debug"
        THEN [panicked |-> TRUE, rows |-> <<>>]
        ELSE [panicked |-> FALSE, rows |-> filter_rows(rows, 0, start, end)]

\* A plausible slip in is_empty: it looks at the first row only.
is_empty_first_row_only(rows) == widths(rows[1]) = 0

\* Pane::is_empty
is_empty(rows) == Len(rows) = 1 /\ widths(rows[1]) = 0

\* The rows a layout of the model is made of.
PaneRows == {Graphemes(<<"a", "a">>), Graphemes(<<"b", "b">>)}

NotExtracted == [panicked |-> FALSE, rows |-> <<>>, called |-> FALSE]

PaneIdle ==
    /\ layout = <<>>
    /\ offset = 0
    /\ fixed_height = None
    /\ viewport_height = 0
    /\ extracted = NotExtracted

\* Pane::new takes any layout, any offset and any fixed height.
PaneNew ==
    /\ layout \in SeqsUpTo(PaneRows, MaxRows)
    /\ offset \in (0..(MaxRows + 1)) \cup {UsizeMax - 1, UsizeMax}
    /\ fixed_height \in {None} \cup {Some(f) : f \in 0..(MaxRows + 1)}
    /\ viewport_height \in 0..(MaxRows + 1)
    /\ extracted = NotExtracted

Extract ==
    /\ ~extracted.called
    /\ LET r == extract(layout, offset, fixed_height, viewport_height, build)
       IN  extracted' = [panicked |-> r.panicked, rows |-> r.rows, called |-> TRUE]
    /\ UNCHANGED <<layout, offset, fixed_height, viewport_height>>
    /\ UNCHANGED <<build, mxVars, edVars, selVars, rlVars, treeVars, cbVars>>

(***************************************************************************)
(* crossterm events                                                        *)
(***************************************************************************)
Key(code, ch, modifiers, kind) ==
    [tag |-> "Key", code |-> code, ch |-> ch, modifiers |-> modifiers,
     kind |-> kind, state |-> "NONE"]
Press(code, modifiers) == Key(code, "", modifiers, "Press")
Char(ch, modifiers) == Key("Char", ch, modifiers, "Press")
Resize == [tag |-> "Resize", code |-> "", ch |-> "", modifiers |-> "NONE",
           kind |-> "", state |-> "NONE"]
Paste == [tag |-> "Paste", code |-> "", ch |-> "", modifiers |-> "NONE",
          kind |-> "", state |-> "NONE"]
\* No event handled yet.
NoEvent == [tag |-> "", code |-> "", ch |-> "", modifiers |-> "NONE",
            kind |-> "", state |-> "NONE"]

\* A pattern Event::Key(KeyEvent { code, modifiers, kind: Press, state: NONE })
Matches(event, code, modifiers) ==
    /\ event.tag = "Key"
    /\ event.code = code
    /\ event.modifiers = modifiers
    /\ event.kind = "Press"
    /\ event.state = "NONE"

(***************************************************************************)
(* text.rs: TextBuffer, a grapheme sequence with a cursor position          *)
(***************************************************************************)
\* TextBuffer::new()
textbuffer_new == [buf |-> <<>>, position |-> 0]

\* move-left, saturating at the head
textbuffer_prev(tb) ==
    IF tb.position > 0 THEN [tb EXCEPT !.position = @ - 1] ELSE tb

\* move-right, saturating at the tail
textbuffer_next(tb) ==
    IF tb.position < Len(tb.buf) THEN [tb EXCEPT !.position = @ + 1] ELSE tb

textbuffer_to_head(tb) == [tb EXCEPT !.position = 0]

textbuffer_to_tail(tb) == [tb EXCEPT !.position = Len(tb.buf)]

\* erase-before-cursor, a no-op at position 0
textbuffer_erase(tb) ==
    IF tb.position = 0 THEN tb
    ELSE [buf |-> SubSeq(tb.buf, 1, tb.position - 1)
                  \o SubSeq(tb.buf, tb.position + 1, Len(tb.buf)),
          position |-> tb.position - 1]

\* insert-at-cursor, the cursor advances by one grapheme
textbuffer_insert(tb, g) ==
    [buf |-> SubSeq(tb.buf, 1, tb.position) \o <<g>>
             \o SubSeq(tb.buf, tb.position + 1, Len(tb.buf)),
     position |-> tb.position + 1]

(***************************************************************************)
(* editor/text.rs: TextEditor                                              *)
(***************************************************************************)
\* A plausible slip in the match of handle_event: the arm of Left calls
\* next(), as the arm of Right does.
handle_event_left_calls_next(tb, event) ==
    IF Matches(event, "Left", "NONE") THEN textbuffer_next(tb)
    ELSE IF Matches(event, "Right", "NONE") THEN textbuffer_next(tb)
    ELSE IF Matches(event, "Char", "CONTROL") /\ event.ch = "a"
         THEN textbuffer_to_head(tb)
    ELSE IF Matches(event, "Char", "CONTROL") /\ event.ch = "e"
         THEN textbuffer_to_tail(tb)
    ELSE IF Matches(event, "Backspace", "NONE") THEN textbuffer_erase(tb)
    ELSE IF Matches(event, "Char", "NONE") \/ Matches(event, "Char", "SHIFT")
         THEN textbuffer_insert(tb, Grapheme(event.ch))
    ELSE tb

\* A plausible slip in the match of handle_event: the arm of Left calls
\* to_head(), as the arm of Ctrl+a does.
handle_event_left_to_head(tb, event) ==
    IF Matches(event, "Left", "NONE") THEN textbuffer_to_head(tb)
    ELSE IF Matches(event, "Right", "NONE") THEN textbuffer_next(tb)
    ELSE IF Matches(event, "Char", "CONTROL") /\ event.ch = "a"
         THEN textbuffer_to_head(tb)
    ELSE IF Matches(event, "Char", "CONTROL") /\ event.ch = "e"
         THEN textbuffer_to_tail(tb)
    ELSE IF Matches(event, "Backspace", "NONE") THEN textbuffer_erase(tb)
    ELSE IF Matches(event, "Char", "NONE") \/ Matches(event, "Char", "SHIFT")
         THEN textbuffer_insert(tb, Grapheme(event.ch))
    ELSE tb

\* A plausible slip in the match of handle_event: the last arm, which
\* evaluates to fresh TextBuffers, stores one of them in the editor.
handle_event_unbound_resets(tb, event) ==
    IF Matches(event, "Left", "NONE") THEN textbuffer_prev(tb)
    ELSE IF Matches(event, "Right", "NONE") THEN textbuffer_next(tb)
    ELSE IF Matches(event, "Char", "CONTROL") /\ event.ch = "a"
         THEN textbuffer_to_head(tb)
    ELSE IF Matches(event, "Char", "CONTROL") /\ event.ch = "e"
         THEN textbuffer_to_tail(tb)
    ELSE IF Matches(event, "Backspace", "NONE") THEN textbuffer_erase(tb)
    ELSE IF Matches(event, "Char", "NONE") \/ Matches(event, "Char", "SHIFT")
         THEN textbuffer_insert(tb, Grapheme(event.ch))
    ELSE textbuffer_new

\* TextEditor::handle_event: the match arms in their order; the last arm,
\* `_`, leaves the text buffer alone.
handle_event(tb, event) ==
    IF Matches(event, "Left", "NONE") THEN textbuffer_prev(tb)
    ELSE IF Matches(event, "Right", "NONE") THEN textbuffer_next(tb)
    ELSE IF Matches(event, "Char", "CONTROL") /\ event.ch = "a"
         THEN textbuffer_to_head(tb)
    ELSE IF Matches(event, "Char", "CONTROL") /\ event.ch = "e"
         THEN textbuffer_to_tail(tb)
    ELSE IF Matches(event, "Backspace", "NONE") THEN textbuffer_erase(tb)
    ELSE IF Matches(event, "Char", "NONE") \/ Matches(event, "Char", "SHIFT")
         THEN textbuffer_insert(tb, Grapheme(event.ch))
    ELSE tb

\* The label of TextEditor::new(), two arrows and a space, each one column
\* wide.
Label == Graphemes(<<">", ">", " ">>)

\* A plausible slip in the inline loop of gen_pane: every grapheme is
\* pushed to the row, also one that is wider than the terminal.
gen_pane_step_no_drop(width, st, ch) ==
    LET width_with_next_char == widths(st.row) + ch.width
        st1 == IF st.row # <<>> /\ width < width_with_next_char
               THEN [layout |-> Append(st.layout, st.row), row |-> <<>>]
               ELSE st
    IN  [st1 EXCEPT !.row = Append(@, ch)]

\* One iteration of the loop gen_pane wraps label and buffer with.
gen_pane_step(width, st, ch) ==
    LET width_with_next_char == widths(st.row) + ch.width
        st1 == IF st.row # <<>> /\ width < width_with_next_char
               THEN [layout |-> Append(st.layout, st.row), row |-> <<>>]
               ELSE st
    IN  IF width >= ch.width
        THEN [st1 EXCEPT !.row = Append(@, ch)]
        ELSE st1

RECURSIVE gen_pane_loop(_, _, _)
gen_pane_loop(width, st, buf) ==
    IF buf = <<>> THEN st
    ELSE gen_pane_loop(width, gen_pane_step(width, st, buf[1]), Tail(buf))

\* TextEditor::gen_pane(size): label and buffer wrapped to size.0, and the
\* offset `self.textbuffer.position / size.0 as usize`.  An integer
\* division by zero panics in every build.  `rows` is the local `layout`
\* as the loop and the last push left it, before the Pane is made.
gen_pane(label, tb, size) ==
    LET st == gen_pane_loop(size[1], [layout |-> <<>>, row |-> <<>>],
                            label \o tb.buf)
        rows == Append(st.layout, st.row)
    IN  IF size[1] = 0
        THEN [panicked |-> TRUE, rows |-> rows, layout |-> <<>>,
              offset |-> 0]
        ELSE [panicked |-> FALSE, rows |-> rows, layout |-> rows,
              offset |-> tb.position \div size[1]]

\* No pane generated yet.
NoPane == [called |-> FALSE, panicked |-> FALSE, rows |-> <<>>,
           layout |-> <<>>, offset |-> 0]

\* The characters typed into a TextEditor.
EditorChars == {"h", "i", "o"}

\* Events that type a character.
TypingEvents ==
    {Char(c, "NONE") : c \in EditorChars} \cup {Char("h", "SHIFT")}

\* Events none of the arms of handle_event but `_` takes.
UnboundEvents ==
    {Char("c", "CONTROL"), Char("h", "ALT"), Press("Enter", "NONE"),
     Press("Left", "SHIFT"), Key("Left", "", "NONE", "Release"),
     Resize, Paste}

EditorEvents ==
    {Press("Left", "NONE"), Press("Right", "NONE"), Char("a", "CONTROL"),
     Char("e", "CONTROL"), Press("Backspace", "NONE")}
    \cup TypingEvents \cup UnboundEvents

IsTyping(event) ==
    Matches(event, "Char", "NONE") \/ Matches(event, "Char", "SHIFT")

\* The events of the end-to-end scenario: 'h', 'i', Left, 'o'.
TypedScript ==
    <<Char("h", "NONE"), Char("i", "NONE"), Press("Left", "NONE"),
      Char("o", "NONE")>>

\* The events handled since construction are kept while they are no more
\* than the scenario's; after that only the fact that there were more.
NoTrail == [events |-> <<>>, more |-> FALSE]
Trailed(trail, e) ==
    IF ~trail.more /\ Len(trail.events) < Len(TypedScript)
    THEN [trail EXCEPT !.events = Append(@, e)]
    ELSE [events |-> <<>>, more |-> TRUE]

\* TextEditor::new(): an empty text buffer.
EditorNew ==
    /\ textbuffer = textbuffer_new
    /\ ed_event = NoEvent
    /\ ed_before = textbuffer_new
    /\ ed_trail = NoTrail
    /\ ed_size = <<0, 0>>
    /\ ed_pane = NoPane
    /\ ed_rows = NotExtracted

EditorIdle == EditorNew

HandleEvent(e) ==
    /\ IsTyping(e) => Len(textbuffer.buf) < MaxBuf
    /\ textbuffer' = handle_event(textbuffer, e)
    /\ ed_event' = e
    /\ ed_before' = textbuffer
    /\ ed_trail' = Trailed(ed_trail, e)
    /\ UNCHANGED <<ed_size, ed_pane, ed_rows>>
    /\ UNCHANGED <<build, mxVars, paneVars, selVars, rlVars, treeVars, cbVars>>

\* A TextEditor in which any text of the model's characters was typed and
\* the cursor moved anywhere, about to be rendered at any terminal width.
EditorTyped ==
    /\ \E buf \in SeqsUpTo(Chars, MaxBuf) :
           \E position \in 0..Len(buf) :
               textbuffer = [buf |-> Graphemes(buf), position |-> position]
    /\ ed_event = NoEvent
    /\ ed_before = textbuffer_new
    /\ ed_trail = NoTrail
    /\ ed_size \in (0..MaxWidth) \X (1..TermHeight)
    /\ ed_pane = NoPane
    /\ ed_rows = NotExtracted

GenPane ==
    /\ ~ed_pane.called
    /\ LET p == gen_pane(Label, textbuffer, ed_size)
       IN  ed_pane' = [called |-> TRUE, panicked |-> p.panicked,
                       rows |-> p.rows,
                       layout |-> p.layout, offset |-> p.offset]
    /\ UNCHANGED <<textbuffer, ed_event, ed_before, ed_trail, ed_size,
                   ed_rows>>
    /\ UNCHANGED <<build, mxVars, paneVars, selVars, rlVars, treeVars, cbVars>>

\* The Pane gen_pane returned is drawn: extract(viewport_height) at the
\* terminal's height.  The Pane of gen_pane has no fixed height.
ExtractPane ==
    /\ ed_pane.called
    /\ ~ed_pane.panicked
    /\ ~ed_rows.called
    /\ LET r == extract(ed_pane.layout, ed_pane.offset, None, ed_size[2],
                        build)
       IN  ed_rows' = [panicked |-> r.panicked, rows |-> r.rows,
                       called |-> TRUE]
    /\ UNCHANGED <<textbuffer, ed_event, ed_before, ed_trail, ed_size,
                   ed_pane>>
    /\ UNCHANGED <<build, mxVars, paneVars, selVars, rlVars, treeVars, cbVars>>

(***************************************************************************)
(* Selector: an item list fixed at construction and a position             *)
(***************************************************************************)
\* Selector::prev(): one bounded step up; whether the position moved.
selector_prev(sel) ==
    IF sel.position > 0
    THEN [sel |-> [sel EXCEPT !.position = @ - 1], moved |-> TRUE]
    ELSE [sel |-> sel, moved |-> FALSE]

\* Selector::next(): one bounded step down; whether the position moved.
selector_next(sel) ==
    IF sel.position + 1 < Len(sel.data)
    THEN [sel |-> [sel EXCEPT !.position = @ + 1], moved |-> TRUE]
    ELSE [sel |-> sel, moved |-> FALSE]

selector_to_head(sel) == [sel EXCEPT !.position = 0]

selector_to_tail(sel) ==
    [sel EXCEPT !.position = saturating_sub(Len(sel.data), 1)]

\* What State::selector_lines() returns, a Result<u16>: an error, or the
\* number of lines the terminal, the title and the window leave to the
\* items.  The model draws counts of at least 1 (with 0 the subtractions
\* `selector_lines()? - 1` below would leave u16).
Err == [ok |-> FALSE, lines |-> 0]
Ok(lines) == [ok |-> TRUE, lines |-> lines]
SelectorLines == {Err} \cup {Ok(l) : l \in 1..MaxLines}

(***************************************************************************)
(* select/action.rs                                                        *)
(***************************************************************************)
\* pub fn move_head(): never fails.
move_head(st) ==
    [editor |-> selector_to_head(st.editor), screen_position |-> 0,
     result |-> "Ok"]

\* pub fn move_tail(): to_tail() runs before selector_lines() is asked.
move_tail(st, lines) ==
    LET ed == selector_to_tail(st.editor)
    IN  IF ~lines.ok
        THEN [editor |-> ed, screen_position |-> st.screen_position,
              result |-> "Err"]
        ELSE [editor |-> ed, screen_position |-> lines.lines - 1,
              result |-> "Ok"]

\* A plausible slip in move_up: a failed prev() is not followed by
\* move_tail, so the movement is not cyclical.
move_up_no_wrap(st, lines) ==
    LET p == selector_prev(st.editor)
    IN  [editor |-> p.sel,
         screen_position |-> IF p.moved /\ 0 < st.screen_position
                             THEN st.screen_position - 1
                             ELSE st.screen_position,
         result |-> "Ok"]

\* pub fn move_up()
move_up(st, lines) ==
    LET p == selector_prev(st.editor)
    IN  IF ~p.moved
        THEN move_tail([st EXCEPT !.editor = p.sel], lines)
        ELSE [editor |-> p.sel,
              screen_position |-> IF 0 < st.screen_position
                                  THEN st.screen_position - 1
                                  ELSE st.screen_position,
              result |-> "Ok"]

\* A plausible slip in move_down: a failed next() is not followed by
\* move_head, so the movement is not cyclical.
move_down_no_wrap(st, lines) ==
    LET n == selector_next(st.editor)
    IN  IF ~n.moved
        THEN [editor |-> n.sel, screen_position |-> st.screen_position,
              result |-> "Ok"]
        ELSE IF ~lines.ok
        THEN [editor |-> n.sel, screen_position |-> st.screen_position,
              result |-> "Err"]
        ELSE [editor |-> n.sel,
              screen_position |-> Min(st.screen_position + 1,
                                      lines.lines - 1),
              result |-> "Ok"]

\* A plausible slip in move_down: the screen position is incremented
\* without the minimum with selector_lines() - 1.
move_down_no_clamp(st, lines) ==
    LET n == selector_next(st.editor)
    IN  IF ~n.moved
        THEN move_head([st EXCEPT !.editor = n.sel])
        ELSE IF ~lines.ok
        THEN [editor |-> n.sel, screen_position |-> st.screen_position,
              result |-> "Err"]
        ELSE [editor |-> n.sel,
              screen_position |-> st.screen_position + 1,
              result |-> "Ok"]

\* pub fn move_down(): next() runs before selector_lines() is asked.
move_down(st, lines) ==
    LET n == selector_next(st.editor)
    IN  IF ~n.moved
        THEN move_head([st EXCEPT !.editor = n.sel])
        ELSE IF ~lines.ok
        THEN [editor |-> n.sel, screen_position |-> st.screen_position,
              result |-> "Err"]
        ELSE [editor |-> n.sel,
              screen_position |-> Min(st.screen_position + 1,
                                      lines.lines - 1),
              result |-> "Ok"]

\* The actions of the end-to-end scenario: one move_up, three move_down.
SelectorScript == <<"move_up", "move_down", "move_down", "move_down">>

\* The actions taken since the State was built are kept while they are no
\* more than the scenario's; after that only the fact that there were more.
NoActions == [actions |-> <<>>, to_tail |-> <<>>, more |-> FALSE]
Acted(trail, action, went_to_tail) ==
    IF ~trail.more /\ Len(trail.actions) < Len(SelectorScript)
    THEN [trail EXCEPT !.actions = Append(@, action),
                       !.to_tail = Append(@, went_to_tail)]
    ELSE [actions |-> <<>>, to_tail |-> <<>>, more |-> TRUE]

NoPrev == [called |-> FALSE, at |-> 0, moved |-> FALSE, after |-> 0]

SelectorIdle ==
    /\ editor = [data |-> <<>>, position |-> 0]
    /\ screen_position = 0
    /\ sel_result = "Ok"
    /\ up_trail = <<>>
    /\ last_prev = NoPrev
    /\ sel_trail = NoActions
    /\ sel_built = "NotBuilt"
    /\ sel_lines = None

\* Builder::new(items): a default Selector in which register_all has put
\* the items, however many they are.  sel_lines is what selector_lines()
\* returns in the session: Some(L) when it is the constant L, None when it
\* varies with the terminal or fails.
SelectorNew ==
    /\ \E n \in 0..MaxItems :
           editor = [data |-> [i \in 1..n |-> i - 1], position |-> 0]
    /\ screen_position = 0
    /\ sel_result = "Ok"
    /\ up_trail = <<>>
    /\ last_prev = NoPrev
    /\ sel_trail = NoActions
    /\ sel_built = "NotBuilt"
    /\ sel_lines \in {None} \cup {Some(l) : l \in 1..MaxLines}

\* What state.selector_lines() can return when an action asks: the same
\* number of lines every time in a session where it is constant, and
\* otherwise any number of lines or an error.
SelectorLinesNow ==
    IF sel_lines = None THEN SelectorLines ELSE {Ok(sel_lines[1])}

\* Builder::dispatcher: Ok of a State with a clone of the builder's
\* Selector and screen_position 0; no path of it returns an error.
dispatcher(selector) ==
    [result |-> "Ok",
     state |-> [editor |-> selector, screen_position |-> 0]]

\* Builder::build: Ok of a Prompt with `self.dispatcher()?`
build_prompt(selector) ==
    LET d == dispatcher(selector)
    IN  IF d.result = "Ok" THEN [result |-> "Ok", state |-> d.state]
        ELSE [result |-> "Err", state |-> d.state]

\* The builder is built; a session starts when the result is Ok.
Build ==
    /\ sel_built = "NotBuilt"
    /\ LET b == build_prompt(editor)
       IN  /\ sel_built' = b.result
           /\ editor' = b.state.editor
           /\ screen_position' = b.state.screen_position
    /\ UNCHANGED <<sel_result, up_trail, last_prev, sel_trail, sel_lines>>
    /\ UNCHANGED <<build, mxVars, paneVars, edVars, rlVars, treeVars, cbVars>>

SelState == [editor |-> editor, screen_position |-> screen_position]

\* The state takes what an action left, also when the action returned an
\* error.
Took(r) ==
    /\ editor' = r.editor
    /\ screen_position' = r.screen_position
    /\ sel_result' = r.result

MoveUp(lines) ==
    /\ sel_built = "Ok"
    /\ LET r == move_up(SelState, lines)
           p == selector_prev(editor)
       IN  /\ Took(r)
           /\ last_prev' = [called |-> TRUE, at |-> editor.position,
                            moved |-> p.moved, after |-> p.sel.position]
           /\ up_trail' = IF Len(up_trail) >= Len(editor.data)
                          THEN <<r.editor.position>>
                          ELSE Append(up_trail, r.editor.position)
           /\ sel_trail' = Acted(sel_trail, "move_up", ~p.moved)
    /\ UNCHANGED <<sel_built, sel_lines>>
    /\ UNCHANGED <<build, mxVars, paneVars, edVars, rlVars, treeVars, cbVars>>

MoveDown(lines) ==
    /\ sel_built = "Ok"
    /\ Took(move_down(SelState, lines))
    /\ up_trail' = <<>>
    /\ sel_trail' = Acted(sel_trail, "move_down", FALSE)
    /\ UNCHANGED <<last_prev, sel_built, sel_lines>>
    /\ UNCHANGED <<build, mxVars, paneVars, edVars, rlVars, treeVars, cbVars>>

MoveHead ==
    /\ sel_built = "Ok"
    /\ Took(move_head(SelState))
    /\ up_trail' = <<>>
    /\ sel_trail' = Acted(sel_trail, "move_head", FALSE)
    /\ UNCHANGED <<last_prev, sel_built, sel_lines>>
    /\ UNCHANGED <<build, mxVars, paneVars, edVars, rlVars, treeVars, cbVars>>

MoveTail(lines) ==
    /\ sel_built = "Ok"
    /\ Took(move_tail(SelState, lines))
    /\ up_trail' = <<>>
    /\ sel_trail' = Acted(sel_trail, "move_tail", TRUE)
    /\ UNCHANGED <<last_prev, sel_built, sel_lines>>
    /\ UNCHANGED <<build, mxVars, paneVars, edVars, rlVars, treeVars, cbVars>>

(***************************************************************************)
(* Snapshot<S>: init, before, after                                        *)
(***************************************************************************)
\* Snapshot::new(state)
Snapshot(state) == [init |-> state, before |-> state, after |-> state]

\* Snapshot::reset_after_to_init()
reset_after_to_init(snapshot) == [snapshot EXCEPT !.after = snapshot.init]

(***************************************************************************)
(* The validator pair {predicate(text) -> bool, message(text) -> string}    *)
(***************************************************************************)
\* The validators of the model accept the texts of at least min_len
\* characters.
validate(validator, text) == Len(text) >= validator.min_len

\* The message names the text it rejects.
error_message(validator, text) == <<"!">> \o text

\* texteditor.text_without_cursor(): the characters of the buffer.
text_without_cursor(texteditor) == to_string(texteditor.buf)

(***************************************************************************)
(* preset/readline.rs: the evaluation closure of Readline::prompt          *)
(***************************************************************************)
IsEnter(e) == Matches(e, "Enter", "NONE")

\* A plausible slip in the closure: the arm of Enter with a validator
\* gives true like the other arms, whatever validate() said.
evaluate_closure_always_true(e, r) ==
    LET text == text_without_cursor(r.text_editor_snapshot.after.texteditor)
        ran  == IsEnter(e) /\ r.validator # None
        ok   == IF ran THEN validate(r.validator[1], text) ELSE TRUE
        r1   == IF ran /\ ~ok
                THEN [r EXCEPT !.error_message_snapshot.after.text =
                                   error_message(r.validator[1], text)]
                ELSE r
        ret  == TRUE
        r2   == IF ret
                THEN [r1 EXCEPT !.error_message_snapshot.after =
                                    r1.error_message_snapshot.init]
                ELSE r1
    IN  [renderer |-> r2, ret |-> ret, validated |-> ran, valid |-> ok]

\* A plausible slip in the closure: the error message is not reset when
\* the result is true.
evaluate_closure_no_reset(e, r) ==
    LET text == text_without_cursor(r.text_editor_snapshot.after.texteditor)
        ran  == IsEnter(e) /\ r.validator # None
        ok   == IF ran THEN validate(r.validator[1], text) ELSE TRUE
        r1   == IF ran /\ ~ok
                THEN [r EXCEPT !.error_message_snapshot.after.text =
                                   error_message(r.validator[1], text)]
                ELSE r
    IN  [renderer |-> r1, ret |-> ok, validated |-> ran, valid |-> ok]

\* A plausible slip in the closure: the arm `_` of the match gives false,
\* so only Enter can give a positive result.
evaluate_closure_other_false(e, r) ==
    LET text == text_without_cursor(r.text_editor_snapshot.after.texteditor)
        ran  == IsEnter(e) /\ r.validator # None
        ok   == IF ran THEN validate(r.validator[1], text) ELSE IsEnter(e)
        r1   == IF ran /\ ~ok
                THEN [r EXCEPT !.error_message_snapshot.after.text =
                                   error_message(r.validator[1], text)]
                ELSE r
        ret  == ok
        r2   == IF ret
                THEN [r1 EXCEPT !.error_message_snapshot.after =
                                    r1.error_message_snapshot.init]
                ELSE r1
    IN  [renderer |-> r2, ret |-> ret, validated |-> ran, valid |-> ok]

\* move |event, renderables| -> Result<bool>: the text of the editor is
\* validated on Enter, the error message is set on a rejection and reset
\* whenever the result is true.
evaluate_closure(e, r) ==
    LET text == text_without_cursor(r.text_editor_snapshot.after.texteditor)
        \* match event { Enter => match &validator { Some(..) => .., None => true }, _ => true }
        ran  == IsEnter(e) /\ r.validator # None
        ok   == IF ran THEN validate(r.validator[1], text) ELSE TRUE
        r1   == IF ran /\ ~ok
                THEN [r EXCEPT !.error_message_snapshot.after.text =
                                   error_message(r.validator[1], text)]
                ELSE r
        ret  == ok
        \* if ret { *after = init.clone() }
        r2   == IF ret
                THEN [r1 EXCEPT !.error_message_snapshot.after =
                                    r1.error_message_snapshot.init]
                ELSE r1
    IN  [renderer |-> r2, ret |-> ret, validated |-> ran, valid |-> ok]

(***************************************************************************)
(* The keymaps: an editing one ("default") and a read-only one             *)
(* ("on_suggest") that is active while the suggestions are shown            *)
(***************************************************************************)
KeymapNames == {"default", "on_suggest"}

IsTab(e) == Matches(e, "Tab", "NONE")

\* ActiveKeySwitcher::switch(name)
switch(r, name) == [r EXCEPT !.keymap = name]

\* The suggestions for a text: the text itself and its completion.
suggestions(text) == <<text, text \o <<"!">>>>

\* Signal of a transition: Quit on an Enter the evaluation accepted.
signal_of(e, ret) == IF IsEnter(e) /\ ret THEN "Quit" ELSE "Continue"

\* keymap "default": the editor handles the event; Tab shows the
\* suggestions for the current text and hands over to "on_suggest".
keymap_default(e, r) ==
    LET r1 == [r EXCEPT !.text_editor_snapshot.after.texteditor =
                            handle_event(@, e)]
        r2 == IF IsTab(e)
              THEN switch([r1 EXCEPT !.suggest_snapshot.after.items =
                               suggestions(text_without_cursor(
                                   r1.text_editor_snapshot.after.texteditor))],
                          "on_suggest")
              ELSE r1
        ev == evaluate_closure(e, r2)
    IN  [renderer |-> ev.renderer, signal |-> signal_of(e, ev.ret),
         ret |-> ev.ret, validated |-> ev.validated, valid |-> ev.valid,
         handlers |-> <<"default">>]

\* keymap "on_suggest": the text is not edited; any event but Tab hides the
\* suggestions and hands back to "default".
keymap_on_suggest(e, r) ==
    LET r1 == IF IsTab(e) THEN r
              ELSE switch([r EXCEPT !.suggest_snapshot =
                               reset_after_to_init(@)],
                          "default")
        ev == evaluate_closure(e, r1)
    IN  [renderer |-> ev.renderer, signal |-> signal_of(e, ev.ret),
         ret |-> ev.ret, validated |-> ev.validated, valid |-> ev.valid,
         handlers |-> <<"on_suggest">>]

\* ActiveKeySwitcher::get(): the transition function of a keymap.
keymap_get(name, e, r) ==
    IF name = "default" THEN keymap_default(e, r) ELSE keymap_on_suggest(e, r)

(***************************************************************************)
(* preset/readline/render.rs: Renderer                                     *)
(***************************************************************************)
\* A plausible slip in evaluate: the event is dispatched again when the
\* handler switched the keymap.
evaluate_redispatch(r, e) ==
    LET first == keymap_get(r.keymap, e, r)
        again == keymap_get(first.renderer.keymap, e, first.renderer)
    IN  IF first.renderer.keymap # r.keymap
        THEN [again EXCEPT !.handlers = first.handlers \o again.handlers]
        ELSE first

\* Renderer::evaluate: let keymap = *self.keymap.borrow_mut().get();
\* keymap(event, self)
evaluate(r, e) == keymap_get(r.keymap, e, r)

\* A plausible slip in finalize: the snapshot is not reset.
finalize_no_reset(r) ==
    [renderer |-> r,
     ret |-> text_without_cursor(r.text_editor_snapshot.after.texteditor)]

\* A plausible slip in finalize: the reset goes the wrong way and stores
\* `after` in `init`.
finalize_overwrites_init(r) ==
    [renderer |-> [r EXCEPT !.text_editor_snapshot.init =
                                r.text_editor_snapshot.after],
     ret |-> text_without_cursor(r.text_editor_snapshot.after.texteditor)]

\* Finalizer::finalize: the text of `after`, then reset_after_to_init().
finalize(r) ==
    [renderer |-> [r EXCEPT !.text_editor_snapshot = reset_after_to_init(@)],
     ret |-> text_without_cursor(r.text_editor_snapshot.after.texteditor)]

\* PaneFactory::create_pane of a text state: the text wrapped to the width.
create_pane_text(state, width, height) ==
    [layout |-> matrixify(width, Graphemes(state.text)),
     offset |-> 0, fixed_height |-> None]

\* PaneFactory::create_pane of the text editor state.
create_pane_text_editor(state, width, height) ==
    [layout |-> matrixify(width, state.texteditor.buf),
     offset |-> 0, fixed_height |-> None]

\* PaneFactory::create_pane of the suggestions: one row per item.
create_pane_listbox(state, width, height) ==
    [layout |-> [i \in 1..Len(state.items) |-> Graphemes(state.items[i])],
     offset |-> 0, fixed_height |-> None]

\* A plausible slip in create_panes: the panes that are empty are left out.
create_panes_skips_empty(r, width, height) ==
    SelectSeq(<< create_pane_text(r.title_snapshot.after, width, height),
                 create_pane_text(r.error_message_snapshot.after, width,
                                  height),
                 create_pane_text_editor(r.text_editor_snapshot.after, width,
                                         height),
                 create_pane_listbox(r.suggest_snapshot.after, width,
                                     height) >>,
              LAMBDA pane : ~is_empty(pane.layout))

\* Renderer::create_panes
create_panes(r, width, height) ==
    << create_pane_text(r.title_snapshot.after, width, height),
       create_pane_text(r.error_message_snapshot.after, width, height),
       create_pane_text_editor(r.text_editor_snapshot.after, width, height),
       create_pane_listbox(r.suggest_snapshot.after, width, height) >>

(***************************************************************************)
(* The dispatch loop of the prompt:                                        *)
(* Idle -> Evaluating -> {Continue -> Render -> Idle, Quit -> Finalizing}  *)
(* -> Terminated                                                           *)
(***************************************************************************)
\* The interrupt event.
CtrlC == Char("c", "CONTROL")
IsInterrupt(e) == Matches(e, "Char", "CONTROL") /\ e.ch = "c"

\* The events the model feeds the loop, the interrupt aside.
PromptEvents ==
    {Press("Left", "NONE"), Press("Backspace", "NONE"), Char("h", "NONE"),
     Char("i", "NONE"), Press("Enter", "NONE"), Press("Tab", "NONE"), Resize}

\* The texts a session starts with.
InitialTexts ==
    {textbuffer_new, [buf |-> Graphemes(<<"h">>), position |-> 1]}

\* The validators a session is configured with.
Validators == {None} \cup {Some([min_len |-> k]) : k \in 1..MaxBuf}

NotHandled ==
    [handlers |-> <<>>, ret |-> TRUE, validated |-> FALSE, valid |-> TRUE]

NeverValidated == [outcome |-> "none", message |-> <<>>]

ReadlineIdle ==
    /\ renderer = [keymap |-> "default"]
    /\ pc = "Idle"
    /\ cur_event = NoEvent
    /\ signal = "Continue"
    /\ frame = <<>>
    /\ returned = <<>>
    /\ handled = NotHandled
    /\ last_validation = NeverValidated

\* Readline::prompt: one snapshot per widget, the keymap "default" active.
ReadlineNew ==
    /\ \E tb \in InitialTexts, v \in Validators :
           renderer = [keymap |-> "default",
                       title_snapshot |-> Snapshot([text |-> <<"T">>]),
                       text_editor_snapshot |-> Snapshot([texteditor |-> tb]),
                       suggest_snapshot |-> Snapshot([items |-> <<>>]),
                       error_message_snapshot |-> Snapshot([text |-> <<>>]),
                       validator |-> v]
    /\ pc = "Idle"
    /\ cur_event = NoEvent
    /\ signal = "Continue"
    /\ frame = <<>>
    /\ returned = <<>>
    /\ handled = NotHandled
    /\ last_validation = NeverValidated

notReadline == <<build, mxVars, paneVars, edVars, selVars, treeVars, cbVars>>

\* A plausible slip in the loop: it does not leave after Quit and reads on.
CanReadAfterQuit == pc \in {"Idle", "Terminated"}

\* The loop reads the next event only when it is idle.
CanRead == pc = "Idle"

\* Idle -> Evaluating: an input event is read.
ReadEvent(e) ==
    /\ CanRead
    /\ IsTyping(e) =>
           Len(renderer.text_editor_snapshot.after.texteditor.buf) < MaxBuf
    /\ cur_event' = e
    /\ pc' = "Evaluating"
    /\ UNCHANGED <<renderer, signal, frame, returned, handled,
                   last_validation, notReadline>>

\* An interrupt is taken through the evaluation, like any other event, and
\* ends the loop afterwards.
InterruptAfterEvaluate ==
    /\ CanRead
    /\ cur_event' = CtrlC
    /\ renderer' = evaluate(renderer, CtrlC).renderer
    /\ signal' = "Quit"
    /\ pc' = "Terminated"
    /\ UNCHANGED <<frame, returned, handled, last_validation, notReadline>>

\* Idle -> Terminated: the interrupt event ends the loop at once; no
\* transition function runs and finalize is not called.
Interrupt ==
    /\ CanRead
    /\ cur_event' = CtrlC
    /\ signal' = "Quit"
    /\ pc' = "Terminated"
    /\ UNCHANGED <<renderer, frame, returned, handled, last_validation,
                   notReadline>>

\* Evaluating -> Continue | Quit: renderer.evaluate(&event)
Evaluate ==
    /\ pc = "Evaluating"
    /\ LET r == evaluate(renderer, cur_event)
           v == renderer.validator
           text == text_without_cursor(
                       r.renderer.text_editor_snapshot.after.texteditor)
       IN  /\ renderer' = r.renderer
           /\ signal' = r.signal
           /\ pc' = r.signal
           /\ handled' = [handlers |-> r.handlers, ret |-> r.ret,
                          validated |-> r.validated, valid |-> r.valid]
           /\ last_validation' =
                  IF ~r.validated THEN last_validation
                  ELSE IF r.valid THEN [outcome |-> "ok", message |-> <<>>]
                  ELSE [outcome |-> "fail",
                        message |-> error_message(v[1], text)]
    /\ UNCHANGED <<cur_event, frame, returned, notReadline>>

\* Continue -> Render: one pane per widget snapshot.
Render ==
    /\ pc = "Continue"
    /\ frame' = create_panes(renderer, TermWidth, TermHeight)
    /\ pc' = "Render"
    /\ UNCHANGED <<renderer, cur_event, signal, returned, handled,
                   last_validation, notReadline>>

\* Render -> Idle: the panes are handed to the terminal.
Draw ==
    /\ pc = "Render"
    /\ pc' = "Idle"
    /\ UNCHANGED <<renderer, cur_event, signal, frame, returned, handled,
                   last_validation, notReadline>>

\* Quit -> Finalizing
Quit ==
    /\ pc = "Quit"
    /\ pc' = "Finalizing"
    /\ UNCHANGED <<renderer, cur_event, signal, frame, returned, handled,
                   last_validation, notReadline>>

\* Finalizing -> Terminated: renderer.finalize()
Finalize ==
    /\ pc = "Finalizing"
    /\ LET f == finalize(renderer)
       IN  /\ renderer' = f.renderer
           /\ returned' = Append(returned, f.ret)
    /\ pc' = "Terminated"
    /\ UNCHANGED <<cur_event, signal, frame, handled, last_validation,
                   notReadline>>

\* finalize() called a second time, right after the session's own.
FinalizeAgain ==
    /\ pc = "Terminated"
    /\ Len(returned) = 1
    /\ LET f == finalize(renderer)
       IN  /\ renderer' = f.renderer
           /\ returned' = Append(returned, f.ret)
    /\ UNCHANGED <<pc, cur_event, signal, frame, handled, last_validation,
                   notReadline>>

(***************************************************************************)
(* The tree prompt: a path-addressed fold tree, its Renderer and its loop  *)
(***************************************************************************)
\* The tree of the model, each node addressed by its path from the root:
\* r has the children a and b, a has the child c.
TreePaths == {<<"r">>, <<"r", "a">>, <<"r", "a", "c">>, <<"r", "b">>}

\* The nodes in document order, the descendants of a folded node left out.
tree_visible(tree) ==
    << <<"r">> >> \o
    (IF <<"r">> \in tree.folded THEN <<>>
     ELSE << <<"r", "a">> >> \o
          (IF <<"r", "a">> \in tree.folded THEN <<>>
           ELSE << <<"r", "a", "c">> >>) \o
          << <<"r", "b">> >>)

\* Tree::get(): the path of the node at the cursor.
tree_get(tree) == tree_visible(tree)[tree.position + 1]

\* One step up, saturating at the root.
tree_backward(tree) ==
    IF tree.position > 0 THEN [tree EXCEPT !.position = @ - 1] ELSE tree

\* One step down, saturating at the last visible node.
tree_forward(tree) ==
    IF tree.position + 1 < Len(tree_visible(tree))
    THEN [tree EXCEPT !.position = @ + 1] ELSE tree

\* Fold/unfold exactly the node at the cursor.
tree_toggle(tree) ==
    LET path == tree_get(tree)
    IN  [tree EXCEPT !.folded = IF path \in @ THEN @ \ {path}
                                ELSE @ \cup {path}]

\* The events the model feeds the tree prompt.
TreeEvents ==
    {Press("Up", "NONE"), Press("Down", "NONE"), Char(" ", "NONE"),
     Press("Enter", "NONE"), Resize}

\* The keymap of the tree prompt: Up and Down move the cursor, Space folds
\* or unfolds, Enter quits, every other event is a no-op.
tree_keymap_default(e, r) ==
    LET tree == r.tree_snapshot.after.tree
        to(t) == [r EXCEPT !.tree_snapshot.after.tree = t]
    IN  IF IsEnter(e) THEN [renderer |-> r, signal |-> "Quit"]
        ELSE IF Matches(e, "Up", "NONE")
             THEN [renderer |-> to(tree_backward(tree)), signal |-> "Continue"]
        ELSE IF Matches(e, "Down", "NONE")
             THEN [renderer |-> to(tree_forward(tree)), signal |-> "Continue"]
        ELSE IF Matches(e, "Char", "NONE") /\ e.ch = " "
             THEN [renderer |-> to(tree_toggle(tree)), signal |-> "Continue"]
        ELSE [renderer |-> r, signal |-> "Continue"]

\* Renderer::evaluate of the tree prompt: the active keymap, called once.
tree_evaluate(r, e) == tree_keymap_default(e, r)

\* Finalizer::finalize of the tree prompt:
\* Ok(self.tree_snapshot.after().tree.get()); the renderer is left as it is.
tree_finalize(r) ==
    [renderer |-> r, ret |-> tree_get(r.tree_snapshot.after.tree)]

TreeIdle ==
    /\ tree_renderer = [keymap |-> "default"]
    /\ tree_pc = "Idle"
    /\ tree_returned = <<>>

\* A tree prompt as its builder makes it: the cursor on the root, any of
\* the two inner nodes folded.
TreeNew ==
    /\ \E folded \in SUBSET {<<"r">>, <<"r", "a">>} :
           tree_renderer =
               [keymap |-> "default",
                title_snapshot |-> Snapshot([text |-> <<"T">>]),
                tree_snapshot |->
                    Snapshot([tree |-> [folded |-> folded, position |-> 0]])]
    /\ tree_pc = "Idle"
    /\ tree_returned = <<>>

notTree == <<build, mxVars, paneVars, edVars, selVars, rlVars, cbVars>>

\* Idle -> Idle | Finalizing: an event is read and evaluated.
TreeEvaluate(e) ==
    /\ tree_pc = "Idle"
    /\ LET r == tree_evaluate(tree_renderer, e)
       IN  /\ tree_renderer' = r.renderer
           /\ tree_pc' = IF r.signal = "Quit" THEN "Finalizing" ELSE "Idle"
    /\ UNCHANGED <<tree_returned, notTree>>

\* Finalizing -> Terminated: renderer.finalize()
TreeFinalize ==
    /\ tree_pc = "Finalizing"
    /\ LET f == tree_finalize(tree_renderer)
       IN  /\ tree_renderer' = f.renderer
           /\ tree_returned' = Append(tree_returned, f.ret)
    /\ tree_pc' = "Terminated"
    /\ UNCHANGED notTree

\* The prompt is run again after it has ended, as a reused prompt is.
TreeRunAgain ==
    /\ tree_pc = "Terminated"
    /\ Len(tree_returned) < MaxRuns
    /\ tree_pc' = "Idle"
    /\ UNCHANGED <<tree_renderer, tree_returned, notTree>>

(***************************************************************************)
(* core/checkbox/state.rs: the pane of a checkbox                          *)
(***************************************************************************)
\* State::cursor, active_mark, inactive_mark and the two item styles.
cursor == <<">", " ">>
active_mark == "x"
inactive_mark == "o"
active_item_style == "active"
inactive_item_style == "inactive"

\* The items of a Checkbox of n items: "0", "1", ...
ItemNames == <<"0", "1", "2", "3", "4">>
Items(n) == [i \in 1..n |-> <<ItemNames[i]>>]

\* let f = |idx, item| ...: the mark of the item, a space, the item.
f(state, idx, item) ==
    IF idx \in state.checkbox.picked
    THEN <<active_mark, " ">> \o item
    ELSE <<inactive_mark, " ">> \o item

\* " ".repeat(n)
RECURSIVE repeat(_, _)
repeat(str, n) == IF n = 0 THEN <<>> ELSE <<str>> \o repeat(str, n - 1)

\* StyledGraphemes::truncate_to_width: the longest prefix of the row that
\* takes no more than width columns.
RECURSIVE truncate_to_width(_, _)
truncate_to_width(text, width) ==
    IF text = <<>> \/ UnicodeWidth(text[1]) > width THEN <<>>
    ELSE <<text[1]>>
         \o truncate_to_width(Tail(text), width - UnicodeWidth(text[1]))

\* The row create_pane makes of the item with 0-based index i.
checkbox_row(state, i, width) ==
    LET item == state.checkbox.items[i + 1]
    IN  IF i = state.checkbox.position
        THEN [text |-> truncate_to_width(cursor \o f(state, i, item), width),
              style |-> active_item_style]
        ELSE [text |-> truncate_to_width(
                           repeat(" ", widths(Graphemes(cursor)))
                           \o f(state, i, item), width),
              style |-> inactive_item_style]

\* .iter().enumerate().filter(..).map(..).map(..).collect(), from the 0-based
\* index i on.
RECURSIVE checkbox_matrix(_, _, _, _)
checkbox_matrix(state, i, height, width) ==
    IF i >= Len(state.checkbox.items) THEN <<>>
    ELSE (IF /\ i >= state.checkbox.position
             /\ i < state.checkbox.position + height
          THEN <<checkbox_row(state, i, width)>> ELSE <<>>)
         \o checkbox_matrix(state, i + 1, height, width)

\* A plausible slip in create_pane: the configured lines are used as they
\* are, without the minimum with the terminal's height.
create_pane_ignores_height(state, width, height) ==
    LET h == IF state.lines # None THEN state.lines[1] ELSE height
    IN  [layout |-> checkbox_matrix(state, 0, h, width), offset |-> 0]

\* impl PaneFactory for State: create_pane(width, height)
create_pane(state, width, height) ==
    LET h == IF state.lines # None THEN Min(state.lines[1], height)
             ELSE height
    IN  [layout |-> checkbox_matrix(state, 0, h, width), offset |-> 0]

NoCheckboxPane == [called |-> FALSE, layout |-> <<>>, offset |-> 0]

CheckboxIdle ==
    /\ cb_checkbox = [items |-> <<>>, position |-> 0, picked |-> {}]
    /\ cb_lines = None
    /\ cb_size = <<0, 0>>
    /\ cb_pane = NoCheckboxPane

\* A checkbox State with any items, the cursor on any of them and any of
\* them picked, about to be rendered at any terminal size.
CheckboxNew ==
    /\ \E n \in 1..MaxBoxes :
           \E position \in 0..(n - 1), picked \in SUBSET (0..(n - 1)) :
               cb_checkbox = [items |-> Items(n), position |-> position,
                              picked |-> picked]
    /\ cb_lines \in {None} \cup {Some(l) : l \in 0..(MaxBoxes + 1)}
    /\ cb_size \in (0..MaxCols) \X (0..(MaxBoxes + 1))
    /\ cb_pane = NoCheckboxPane

CreatePane ==
    /\ ~cb_pane.called
    /\ LET pane == create_pane([checkbox |-> cb_checkbox, lines |-> cb_lines],
                               cb_size[1], cb_size[2])
       IN  cb_pane' = [called |-> TRUE, layout |-> pane.layout,
                       offset |-> pane.offset]
    /\ UNCHANGED <<cb_checkbox, cb_lines, cb_size>>
    /\ UNCHANGED <<build, mxVars, paneVars, edVars, selVars, rlVars, treeVars>>

(***************************************************************************)
(* The wrapper applied to a drawn input.                                   *)
(***************************************************************************)
WrapIdle ==
    /\ mx_width = 0
    /\ mx_g = <<>>
    /\ mx_layout = <<>>
    /\ mx_done = FALSE
    /\ mx_empty = FALSE

WrapDrawn ==
    /\ mx_width \in 0..MaxWidth
    /\ mx_g \in {Graphemes(s) : s \in SeqsUpTo(Chars, MaxLen)}
    /\ mx_layout = <<>>
    /\ mx_done = FALSE
    /\ mx_empty = FALSE

InitWrap ==
    /\ build = "release"
    /\ WrapDrawn
    /\ PaneIdle
    /\ EditorIdle
    /\ SelectorIdle
    /\ ReadlineIdle
    /\ TreeIdle
    /\ CheckboxIdle

Matrixify ==
    /\ ~mx_done
    /\ mx_layout' = matrixify(mx_width, mx_g)
    /\ mx_empty' = is_empty(matrixify(mx_width, mx_g))
    /\ mx_done' = TRUE
    /\ UNCHANGED <<mx_width, mx_g>>
    /\ UNCHANGED <<build, paneVars, edVars, selVars, rlVars, treeVars, cbVars>>

NextWrap == Matrixify

NextPane == Extract

InitPane ==
    /\ build \in {"debug", "release"}
    /\ PaneNew
    /\ WrapIdle
    /\ EditorIdle
    /\ SelectorIdle
    /\ ReadlineIdle
    /\ TreeIdle
    /\ CheckboxIdle

SpecPane == InitPane /\ [][NextPane]_vars

NextEditor == \E e \in EditorEvents : HandleEvent(e)

InitEditor ==
    /\ build = "release"
    /\ EditorNew
    /\ WrapIdle
    /\ PaneIdle
    /\ SelectorIdle
    /\ ReadlineIdle
    /\ TreeIdle
    /\ CheckboxIdle

SpecEditor == InitEditor /\ [][NextEditor]_vars

NextGenPane ==
    \/ GenPane
    \/ ExtractPane

InitGenPane ==
    /\ build = "release"
    /\ EditorTyped
    /\ WrapIdle
    /\ PaneIdle
    /\ SelectorIdle
    /\ ReadlineIdle
    /\ TreeIdle
    /\ CheckboxIdle

SpecGenPane == InitGenPane /\ [][NextGenPane]_vars

NextTree ==
    \/ \E e \in TreeEvents : TreeEvaluate(e)
    \/ TreeFinalize
    \/ TreeRunAgain

InitTree ==
    /\ build = "release"
    /\ TreeNew
    /\ CheckboxIdle
    /\ WrapIdle
    /\ PaneIdle
    /\ EditorIdle
    /\ SelectorIdle
    /\ ReadlineIdle

SpecTree == InitTree /\ [][NextTree]_vars

NextCheckbox == CreatePane

InitCheckbox ==
    /\ build = "release"
    /\ CheckboxNew
    /\ WrapIdle
    /\ PaneIdle
    /\ EditorIdle
    /\ SelectorIdle
    /\ ReadlineIdle
    /\ TreeIdle

SpecCheckbox == InitCheckbox /\ [][NextCheckbox]_vars

NextSelector ==
    \/ Build
    \/ \E lines \in SelectorLinesNow : MoveUp(lines)
    \/ \E lines \in SelectorLinesNow : MoveDown(lines)
    \/ MoveHead
    \/ \E lines \in SelectorLinesNow : MoveTail(lines)

InitSelector ==
    /\ build = "release"
    /\ SelectorNew
    /\ WrapIdle
    /\ PaneIdle
    /\ EditorIdle
    /\ ReadlineIdle
    /\ TreeIdle
    /\ CheckboxIdle

SpecSelector == InitSelector /\ [][NextSelector]_vars

NextReadline ==
    \/ \E e \in PromptEvents : ReadEvent(e)
    \/ Interrupt
    \/ Evaluate
    \/ Render
    \/ Draw
    \/ Quit
    \/ Finalize
    \/ FinalizeAgain

InitReadline ==
    /\ build = "release"
    /\ ReadlineNew
    /\ WrapIdle
    /\ PaneIdle
    /\ EditorIdle
    /\ SelectorIdle
    /\ TreeIdle
    /\ CheckboxIdle

SpecReadline == InitReadline /\ [][NextReadline]_vars

SpecWrap == InitWrap /\ [][NextWrap]_vars

(***************************************************************************)
(* C1: for every width and every grapheme sequence none of whose graphemes *)
(* is wider than width, matrixify returns rows each of total display width *)
(* at most width, and the rows joined in order are the input sequence.     *)
(***************************************************************************)
NoneWiderThan(width, g) == \A i \in 1..Len(g) : g[i].width <= width

C1_WrapFitsAndPreserves ==
    (mx_done /\ NoneWiderThan(mx_width, mx_g)) =>
        /\ \A r \in 1..Len(mx_layout) : widths(mx_layout[r]) <= mx_width
        /\ Concat(mx_layout) = mx_g

\* A wrapped input of three graphemes, an emoji among them, that needed
\* more than one row.
C1_Witness ==
    /\ mx_done
    /\ NoneWiderThan(mx_width, mx_g)
    /\ Len(mx_g) = 3
    /\ \E i \in 1..Len(mx_g) : mx_g[i].width = 2
    /\ Len(mx_layout) >= 2

(***************************************************************************)
(* C2: for a Pane of N rows, optional fixed height F, viewport height V    *)
(* and any offset, offset >= N included, extract(V) does not fail and      *)
(* returns exactly min(N, F-or-V, V) rows, which are contiguous rows of    *)
(* the layout in their original order.                                     *)
(***************************************************************************)
C2_ExtractTotalAndExact ==
    extracted.called =>
        LET lines == Min(Len(layout),
                         Min(unwrap_or(fixed_height, viewport_height),
                             viewport_height))
        IN  /\ ~extracted.panicked
            /\ Len(extracted.rows) = lines
            /\ \E s \in 0..(Len(layout) - lines) :
                   extracted.rows = SubSeq(layout, s + 1, s + lines)

\* The same statement for the offsets whose sum with the number of lines
\* is a usize.
ExtractExactWithoutOverflow ==
    (/\ extracted.called
     /\ offset + extract_lines(layout, fixed_height, viewport_height) <= UsizeMax)
        => C2_ExtractTotalAndExact

(***************************************************************************)
(* C3: after any finite sequence of TextEditor events (move-left,          *)
(* move-right, to-head, to-tail, insert, erase, and events no arm binds)   *)
(* from an empty buffer, 0 <= cursor <= buffer length; move-left at 0,     *)
(* move-right at the length and erase at 0 leave the state unchanged.      *)
(***************************************************************************)
C3_CursorInBuffer ==
    /\ 0 <= textbuffer.position
    /\ textbuffer.position <= Len(textbuffer.buf)
    /\ (ed_event = Press("Left", "NONE") /\ ed_before.position = 0)
           => textbuffer = ed_before
    /\ (/\ ed_event = Press("Right", "NONE")
        /\ ed_before.position = Len(ed_before.buf))
           => textbuffer = ed_before
    /\ (ed_event = Press("Backspace", "NONE") /\ ed_before.position = 0)
           => textbuffer = ed_before

\* Move-left handled with the cursor at the head of a buffer that holds
\* text.
C3_Witness ==
    /\ ed_event = Press("Left", "NONE")
    /\ ed_before.position = 0
    /\ Len(ed_before.buf) = 2
    /\ textbuffer.position = 0

(***************************************************************************)
(* C5: Selector prev() at position 0 returns false and leaves the position *)
(* unchanged; with move_up's wrap to the tail when prev() fails, N         *)
(* consecutive move_up actions on an N-item selector visit each of the N   *)
(* positions exactly once before any position repeats.  (A Selector        *)
(* without items has no position to visit: the second part speaks of       *)
(* N >= 1.)                                                                *)
(***************************************************************************)
Range(seq) == {seq[i] : i \in DOMAIN seq}

C5_PrevBoundedMoveUpCyclic ==
    /\ (last_prev.called /\ last_prev.at = 0)
           => (~last_prev.moved /\ last_prev.after = 0)
    /\ Len(editor.data) >= 1 =>
           /\ Len(up_trail) <= Len(editor.data)
           /\ Cardinality(Range(up_trail)) = Len(up_trail)
           /\ Len(up_trail) = Len(editor.data)
                  => Range(up_trail) = 0..(Len(editor.data) - 1)

\* Four consecutive move_up actions on four items, the first of them at
\* position 0, where prev() failed and move_up went to the tail.
C5_Witness ==
    /\ Len(editor.data) = 4
    /\ up_trail = <<3, 2, 1, 0>>
    /\ last_prev.called /\ last_prev.at = 1

(***************************************************************************)
(* The readline prompt: what the claims below speak of.                    *)
(***************************************************************************)
\* The text of the editor.
Text == text_without_cursor(renderer.text_editor_snapshot.after.texteditor)

\* A validator is configured and rejects the text of the editor.
Rejects ==
    /\ renderer.validator # None
    /\ ~validate(renderer.validator[1], Text)

\* The event read last has just been evaluated.
JustEvaluated == pc \in {"Continue", "Quit"}

ErrorMessage == renderer.error_message_snapshot

(***************************************************************************)
(* C4: Readline finalize returns the editor text held in the text-editor   *)
(* snapshot's `after`, then sets that snapshot's `after` equal to `init`;  *)
(* a second finalize called immediately afterwards returns the initial     *)
(* value.                                                                  *)
(***************************************************************************)
C4_FinalizeReturnsAfterThenResets ==
    [][ /\ pc = "Finalizing" =>
             /\ returned' = Append(returned, Text)
             /\ renderer'.text_editor_snapshot.after =
                    renderer.text_editor_snapshot.init
        /\ (pc = "Terminated" /\ returned' # returned) =>
             /\ returned' =
                    Append(returned,
                           text_without_cursor(
                               renderer.text_editor_snapshot.init.texteditor))
             /\ renderer'.text_editor_snapshot.after =
                    renderer.text_editor_snapshot.init
      ]_vars

\* A session that started with "h", ended with "hi", and whose renderer
\* was finalized twice.
C4_Witness ==
    /\ pc = "Terminated"
    /\ returned = << <<"h", "i">>, <<"h">> >>

(***************************************************************************)
(* C6: when Enter is received and the validator rejects the text of the    *)
(* editor, the evaluation result is negative, the Quit transition is not   *)
(* taken, the error-message widget's `after` text is the validator's       *)
(* message for that text and the loop continues; Quit on Enter is taken    *)
(* only when the validator accepts the text or none is configured.         *)
(***************************************************************************)
C6_RejectedEnterDoesNotQuit ==
    JustEvaluated =>
        /\ (IsEnter(cur_event) /\ Rejects) =>
               /\ ~handled.ret
               /\ signal = "Continue"
               /\ pc = "Continue"
               /\ ErrorMessage.after.text =
                      error_message(renderer.validator[1], Text)
        /\ pc = "Quit" => (IsEnter(cur_event) /\ ~Rejects)

\* Enter on the text "h", which the validator rejects.
C6_Witness ==
    /\ pc = "Continue"
    /\ IsEnter(cur_event)
    /\ Rejects
    /\ Text = <<"h">>
    /\ ErrorMessage.after.text = <<"!", "h">>

(***************************************************************************)
(* C7 as stated: after every evaluated event, the error-message widget's   *)
(* `after` equals its `init` whenever the editor's last validation         *)
(* succeeded, and otherwise its text is the validator's message: the       *)
(* message of a failed validation stays until a later validation succeeds. *)
(***************************************************************************)
C7_MessageStaysUntilValid ==
    JustEvaluated =>
        /\ last_validation.outcome = "ok" =>
               ErrorMessage.after = ErrorMessage.init
        /\ last_validation.outcome = "fail" =>
               ErrorMessage.after.text = last_validation.message

(***************************************************************************)
(* C7 as amended: after every evaluated event, the error-message widget's  *)
(* `after` equals its `init` whenever the evaluation of that event was     *)
(* positive (the event is not Enter, or no validator is configured, or the *)
(* validator accepts the text), and otherwise (an Enter the validator      *)
(* rejects) its text is the validator's message: the message of a failed   *)
(* validation stays only until the next event, Enter or not, whose         *)
(* evaluation is positive.                                                 *)
(***************************************************************************)
C7_MessageStaysUntilPositiveEvaluation ==
    JustEvaluated =>
        IF IsEnter(cur_event) /\ Rejects
        THEN ErrorMessage.after.text =
                 error_message(renderer.validator[1], Text)
        ELSE ErrorMessage.after = ErrorMessage.init

\* An event other than Enter evaluated after a failed validation: the
\* message is gone although no validation has succeeded since.
C7_Witness ==
    /\ JustEvaluated
    /\ ~IsEnter(cur_event)
    /\ last_validation.outcome = "fail"
    /\ ErrorMessage.after = ErrorMessage.init

(***************************************************************************)
(* C8: the dispatch loop reaches Terminated only through Quit (a handler's *)
(* decision, then finalize, or the interrupt event), and Terminated is     *)
(* absorbing: once there, no event is evaluated, no widget state is        *)
(* mutated and nothing is rendered.                                        *)
(***************************************************************************)
C8_TerminatedOnlyByQuitAndAbsorbing ==
    [][ /\ (pc # "Terminated" /\ pc' = "Terminated") =>
               /\ signal' = "Quit"
               /\ \/ pc = "Finalizing"
                  \/ pc = "Idle" /\ IsInterrupt(cur_event')
        /\ (pc # "Finalizing" /\ pc' = "Finalizing") => pc = "Quit"
        /\ (pc # "Quit" /\ pc' = "Quit") =>
               (pc = "Evaluating" /\ signal' = "Quit")
        /\ pc = "Terminated" =>
               /\ pc' = "Terminated"
               /\ UNCHANGED <<renderer, cur_event, signal, frame, handled,
                              last_validation>>
      ]_vars

\* A session a handler's Quit ended, finalized, and finalized once more.
C8_Witness ==
    /\ pc = "Terminated"
    /\ IsEnter(cur_event)
    /\ signal = "Quit"
    /\ Len(returned) = 2

(***************************************************************************)
(* C9: an interrupt event received in a state that is not Terminated       *)
(* moves the loop directly to Terminated without invoking the validator,   *)
(* also when the text of the editor would fail validation, and leaves      *)
(* every widget snapshot, the error message's included, as it was.         *)
(***************************************************************************)
C9_InterruptShortCircuits ==
    [][ (pc # "Terminated" /\ IsInterrupt(cur_event')) =>
            /\ pc' = "Terminated"
            /\ UNCHANGED <<renderer, handled, last_validation, frame,
                           returned>>
      ]_vars

\* An interrupt taken while the editor holds a text the validator rejects
\* and the error message of an earlier Enter is displayed.
C9_Witness ==
    /\ pc = "Terminated"
    /\ IsInterrupt(cur_event)
    /\ Rejects
    /\ ErrorMessage.after # ErrorMessage.init
    /\ returned = <<>>

(***************************************************************************)
(* C10: at every moment exactly one keymap is active, and each input event *)
(* is handled by exactly one transition function, the one that is active   *)
(* when the evaluation of the event starts; a switch a handler makes       *)
(* during an event does not dispatch the event again and takes effect from *)
(* the next event on.                                                      *)
(***************************************************************************)
C10_OneHandlerPerEvent ==
    /\ [](renderer.keymap \in KeymapNames)
    /\ [][ pc = "Evaluating" => handled'.handlers = <<renderer.keymap>> ]_vars

\* An event that "on_suggest", switched to by an earlier event, handled
\* alone although it switched back to "default" while handling it.
C10_Witness ==
    /\ pc = "Continue"
    /\ handled.handlers = <<"on_suggest">>
    /\ renderer.keymap = "default"

(***************************************************************************)
(* C11: every event that matches no TextEditor binding (Ctrl+letter other  *)
(* than a/e, a key release, resize, paste, a key with other modifiers) is  *)
(* a no-op: the text buffer's contents and cursor position are as they     *)
(* were before the event.                                                  *)
(***************************************************************************)
\* The bindings of the TextEditor: presses of Left, Right and Backspace
\* without modifiers, of Ctrl+a and Ctrl+e, and of a character without
\* modifiers or with Shift.
Bound(e) ==
    /\ e.tag = "Key"
    /\ e.kind = "Press"
    /\ e.state = "NONE"
    /\ \/ e.code \in {"Left", "Right", "Backspace"} /\ e.modifiers = "NONE"
       \/ e.code = "Char" /\ e.modifiers = "CONTROL" /\ e.ch \in {"a", "e"}
       \/ e.code = "Char" /\ e.modifiers \in {"NONE", "SHIFT"}

C11_UnboundEventIsNoOp ==
    (ed_event # NoEvent /\ ~Bound(ed_event)) => textbuffer = ed_before

\* Ctrl+c handled with the cursor inside a buffer that holds text.
C11_Witness ==
    /\ ed_event = Char("c", "CONTROL")
    /\ Len(ed_before.buf) = 2
    /\ ed_before.position = 1
    /\ textbuffer = ed_before

(***************************************************************************)
(* C12: matrixify places no grapheme whose own display width exceeds width *)
(* into any row (it is dropped), and every grapheme whose width is at most *)
(* width appears in the rows exactly once and in input order: the rows     *)
(* joined in order are the input without its over-wide graphemes.          *)
(***************************************************************************)
C12_OverWideDroppedOthersKept ==
    mx_done =>
        LET Fits(g) == g.width <= mx_width
        IN  /\ \A r \in 1..Len(mx_layout) :
                   \A i \in 1..Len(mx_layout[r]) : Fits(mx_layout[r][i])
            /\ Concat(mx_layout) = SelectSeq(mx_g, Fits)

\* An emoji between two letters wrapped at width 1: the emoji is gone, the
\* letters are there.
C12_Witness ==
    /\ mx_done
    /\ mx_width = 1
    /\ to_string(mx_g) = <<"a", "E", "b">>
    /\ Len(Concat(mx_layout)) = 2

(***************************************************************************)
(* C13: for every width, matrixify of the empty grapheme sequence returns  *)
(* exactly one row, which is empty, and a Pane whose layout is that result *)
(* reports is_empty() = true; is_empty() is true if and only if the pane   *)
(* has exactly one row of total width 0.                                   *)
(***************************************************************************)
C13_EmptyWrapIsEmptyPane ==
    mx_done =>
        /\ mx_g = <<>> => (mx_layout = << <<>> >> /\ mx_empty)
        /\ mx_empty <=>
               /\ Len(mx_layout) = 1
               /\ \A i \in 1..Len(mx_layout[1]) : mx_layout[1][i].width = 0

\* The empty sequence wrapped at the widest terminal of the model.
C13_Witness ==
    /\ mx_done
    /\ mx_g = <<>>
    /\ mx_width = MaxWidth
    /\ mx_empty

(***************************************************************************)
(* C14: with lines = min(N, F-or-V, V), if offset + lines <= N then        *)
(* extract returns the rows [offset, offset + lines), so its first row is  *)
(* the row at offset; otherwise it returns the rows [N - lines, N), the    *)
(* window shifted up to end at the last row.  The offset is clamped, never *)
(* wrapped around.                                                         *)
(***************************************************************************)
C14_WindowClampedToLastRow ==
    extracted.called =>
        LET N == Len(layout)
            lines == Min(N, Min(unwrap_or(fixed_height, viewport_height),
                                viewport_height))
        IN  /\ ~extracted.panicked
            /\ IF offset + lines <= N
               THEN extracted.rows = SubSeq(layout, offset + 1, offset + lines)
               ELSE extracted.rows = SubSeq(layout, N - lines + 1, N)

\* The same statement for the offsets whose sum with the number of lines
\* is a usize.
WindowClampedWithoutOverflow ==
    (/\ extracted.called
     /\ offset + extract_lines(layout, fixed_height, viewport_height) <= UsizeMax)
        => C14_WindowClampedToLastRow

\* A window that ran past the last row and was shifted up: two rows of a
\* layout of three taken from offset 2.
WindowShiftedUp ==
    /\ extracted.called
    /\ Len(layout) = 3
    /\ offset = 2
    /\ Len(extracted.rows) = 2
    /\ extracted.rows = SubSeq(layout, 2, 3)

(***************************************************************************)
(* C15: a TextEditor seeded empty that receives the events 'h', 'i', Left, *)
(* 'o' in this order ends with buffer "ohi" and cursor at position 2.      *)
(***************************************************************************)
ScriptTyped == ed_trail = [events |-> TypedScript, more |-> FALSE]

C15_ScriptEndsWithOhi ==
    ScriptTyped =>
        /\ to_string(textbuffer.buf) = <<"o", "h", "i">>
        /\ textbuffer.position = 2

\* C15 as the editor has it: Left puts the cursor between 'h' and 'i', and
\* 'o' is inserted there, so the buffer ends as "hoi" with the cursor at
\* position 2, after the 'o'.
C15_ScriptEndsWithHoi ==
    ScriptTyped =>
        /\ to_string(textbuffer.buf) = <<"h", "o", "i">>
        /\ textbuffer.position = 2

\* The scenario's four events handled, the last of them the 'o' typed at
\* position 1 of "hi".
C15_Witness ==
    /\ ScriptTyped
    /\ ed_event = Char("o", "NONE")
    /\ to_string(ed_before.buf) = <<"h", "i">>
    /\ ed_before.position = 1

(***************************************************************************)
(* C16: a 5-item Selector at position 0 that receives one move_up (cyclic  *)
(* prev) followed by three move_down (cyclic next) ends at position 2,     *)
(* having wrapped to the tail exactly once during the sequence.            *)
(***************************************************************************)
ScriptActed ==
    /\ Len(editor.data) = 5
    /\ ~sel_trail.more
    /\ sel_trail.actions = SelectorScript

C16_UpThenThreeDownEndsAtTwo ==
    ScriptActed =>
        /\ editor.position = 2
        /\ Cardinality({i \in 1..Len(sel_trail.to_tail) :
                            sel_trail.to_tail[i]}) = 1

\* The scenario's four actions taken on a 5-item Selector, the first of
\* them through move_tail.
C16_Witness ==
    /\ ScriptActed
    /\ sel_trail.to_tail[1]
    /\ editor.position = 2

(***************************************************************************)
(* C17: one render produces exactly one Pane per widget snapshot of the    *)
(* renderer, always in the same top-to-bottom order (title, error message, *)
(* text editor, suggestions); the number and the order of the panes do not *)
(* depend on what the widgets hold, and a widget whose pane is empty is    *)
(* still present at its position.                                          *)
(***************************************************************************)
\* The widget snapshots of the readline Renderer.
Snapshots ==
    {"title_snapshot", "error_message_snapshot", "text_editor_snapshot",
     "suggest_snapshot"}

C17_OnePanePerSnapshotInOrder ==
    pc = "Render" =>
        /\ Snapshots \subseteq DOMAIN renderer
        /\ Len(frame) = Cardinality(Snapshots)
        /\ frame[1] = create_pane_text(renderer.title_snapshot.after,
                                       TermWidth, TermHeight)
        /\ frame[2] = create_pane_text(renderer.error_message_snapshot.after,
                                       TermWidth, TermHeight)
        /\ frame[3] = create_pane_text_editor(
                          renderer.text_editor_snapshot.after,
                          TermWidth, TermHeight)
        /\ frame[4] = create_pane_listbox(renderer.suggest_snapshot.after,
                                          TermWidth, TermHeight)

\* A render with no error message and an emptied text editor: their panes
\* are empty and are the second and the third of four.
C17_Witness ==
    /\ pc = "Render"
    /\ cur_event = Press("Backspace", "NONE")
    /\ Len(frame) = 4
    /\ is_empty(frame[2].layout)
    /\ is_empty(frame[3].layout)
    /\ ~is_empty(frame[1].layout)

(***************************************************************************)
(* C18: building a selector prompt from zero items fails at build time     *)
(* (build/dispatcher returns an error and no session starts), so no event  *)
(* is ever evaluated against a selector with an empty item list.           *)
(***************************************************************************)
C18_ZeroItemsFailAtBuild ==
    Len(editor.data) = 0 =>
        /\ sel_built \in {"NotBuilt", "Err"}
        /\ sel_trail = NoActions

\* For the builders with at least one item the build succeeds and the
\* actions run on a Selector that has items.
BuiltWithItems ==
    (sel_built = "Ok" /\ Len(editor.data) > 0) =>
        editor.position \in 0..(Len(editor.data) - 1)

(***************************************************************************)
(* C19: generating the TextEditor pane (wrapping label plus buffer and     *)
(* computing the scroll offset from the cursor) is total: for every        *)
(* terminal width w >= 0, w = 0 included, and every buffer and cursor      *)
(* position it completes without failure.                                  *)
(***************************************************************************)
C19_GenPaneIsTotal == ed_pane.called => ~ed_pane.panicked

\* The same statement for the widths of at least one column.
GenPaneTotalForPositiveWidth ==
    (ed_pane.called /\ ed_size[1] >= 1) => ~ed_pane.panicked

(***************************************************************************)
(* C20: the tree renderer's finalize extracts the return value from the    *)
(* tree snapshot's `after` and then leaves that snapshot's `after` equal   *)
(* to `init`, so that a reused tree prompt starts from its initial cursor  *)
(* and fold state.                                                         *)
(***************************************************************************)
C20_TreeFinalizeResetsAfter ==
    tree_pc = "Terminated" =>
        /\ tree_returned # <<>>
        /\ tree_renderer.tree_snapshot.after
               = tree_renderer.tree_snapshot.init

\* What the tree renderer's finalize does do: it returns the path of the
\* node at the cursor of `after`, and `after` is as the session left it.
TreeFinalizeReturnsCursorPath ==
    tree_pc = "Terminated" =>
        /\ tree_returned # <<>>
        /\ tree_returned[Len(tree_returned)]
               = tree_get(tree_renderer.tree_snapshot.after.tree)
        /\ tree_renderer.tree_snapshot.init.tree.position = 0

\* A session that unfolded the root, moved to b and ended there.
TreeEndedAway ==
    /\ tree_pc = "Terminated"
    /\ tree_returned = << <<"r", "b">> >>
    /\ tree_renderer.tree_snapshot.after # tree_renderer.tree_snapshot.init

(***************************************************************************)
(* C21: scroll follows cursor in the editor: for every terminal width      *)
(* w >= 1, viewport height V >= 1, buffer and cursor position, the rows    *)
(* extract(V) returns for the pane gen_pane built (offset = cursor         *)
(* position / w) include the layout row in which the grapheme at the       *)
(* cursor position is placed.                                              *)
(***************************************************************************)
\* How many of the first n graphemes of g gen_pane places in a row at width
\* w (those wider than w are dropped).
RECURSIVE Placed(_, _, _)
Placed(g, n, w) ==
    IF n = 0 THEN 0
    ELSE Placed(g, n - 1, w) + (IF g[n].width <= w THEN 1 ELSE 0)

\* The 0-based row of rows that holds the j-th (1-based) of its graphemes.
RECURSIVE RowOf(_, _)
RowOf(rows, j) ==
    IF j <= Len(rows[1]) THEN 0
    ELSE 1 + RowOf(Tail(rows), j - Len(rows[1]))

\* The grapheme at the cursor is there and has a place in the layout.
CursorPlaced ==
    /\ textbuffer.position < Len(textbuffer.buf)
    /\ textbuffer.buf[textbuffer.position + 1].width <= ed_size[1]

\* The 0-based layout row of the grapheme at the cursor.
CursorRow ==
    RowOf(ed_pane.layout,
          Placed(Label \o textbuffer.buf,
                 Len(Label) + textbuffer.position + 1, ed_size[1]))

C21_ScrollFollowsCursor ==
    (ed_rows.called /\ CursorPlaced) =>
        LET N == Len(ed_pane.layout)
            lines == Min(N, ed_size[2])
            start == IF ed_pane.offset + lines <= N THEN ed_pane.offset
                     ELSE N - lines
        IN  /\ ed_rows.rows = SubSeq(ed_pane.layout, start + 1, start + lines)
            /\ start <= CursorRow
            /\ CursorRow < start + lines

\* The same statement for the panes whose rows all fit the viewport.
CursorRowShownWhenAllRowsFit ==
    (ed_rows.called /\ Len(ed_pane.layout) <= ed_size[2]) =>
        C21_ScrollFollowsCursor

(***************************************************************************)
(* C22: for every widget snapshot, `init` is never modified after          *)
(* creation: across event evaluations, validation outcomes and finalize    *)
(* calls only `after` (and `before` on commit) change, and every reset     *)
(* makes `after` equal to the value `init` had at creation.                *)
(***************************************************************************)
C22_InitNeverModified ==
    [][ /\ \A w \in Snapshots : renderer'[w].init = renderer[w].init
        /\ returned' # returned =>
               renderer'.text_editor_snapshot.after
                   = renderer.text_editor_snapshot.init
        /\ (pc = "Evaluating" /\ handled'.ret) =>
               renderer'.error_message_snapshot.after
                   = renderer.error_message_snapshot.init ]_vars

\* After a rejected Enter a character was typed: the error message was
\* reset to its `init` while the text editor's `after` is away from its
\* `init`.
C22_Witness ==
    /\ pc = "Continue"
    /\ IsTyping(cur_event)
    /\ last_validation.outcome = "fail"
    /\ renderer.error_message_snapshot.after
           = renderer.error_message_snapshot.init
    /\ renderer.text_editor_snapshot.after
           # renderer.text_editor_snapshot.init

(***************************************************************************)
(* C23: in the readline evaluation closure every event other than Enter    *)
(* yields a positive result and resets the error-message widget's `after`  *)
(* to `init`; hence the error-message widget differs from `init` only      *)
(* after an Enter whose validation failed, until the next event is         *)
(* evaluated.                                                              *)
(***************************************************************************)
C23_OtherEventsResetMessage ==
    /\ (JustEvaluated /\ ~IsEnter(cur_event)) =>
           /\ handled.ret
           /\ ErrorMessage.after = ErrorMessage.init
    /\ ErrorMessage.after # ErrorMessage.init =>
           /\ handled.validated
           /\ ~handled.valid
           /\ ~handled.ret
           /\ JustEvaluated => IsEnter(cur_event)

\* Backspace evaluated while the message of a rejected Enter was shown:
\* the result is positive and the message is gone.
C23_Witness ==
    /\ pc = "Continue"
    /\ cur_event = Press("Backspace", "NONE")
    /\ handled.ret
    /\ last_validation.outcome = "fail"
    /\ ErrorMessage.after = ErrorMessage.init

(***************************************************************************)
(* C24: the checkbox pane for N items, current position p, configured      *)
(* lines and viewport height H contains exactly the items with index in    *)
(* [p, min(N, p + h)) in item order, where h = min(lines, H) (or H when    *)
(* lines is unset); the first row is the item at the current position and  *)
(* is the only row carrying the cursor symbol, and each row shows the      *)
(* active mark if and only if its index is in the picked set.              *)
(***************************************************************************)
\* min(N, p + h)
CheckboxEnd ==
    LET h == IF cb_lines = None THEN cb_size[2]
             ELSE Min(cb_lines[1], cb_size[2])
    IN  Min(Len(cb_checkbox.items), cb_checkbox.position + h)

\* The k-th row of the pane (k = 1 for the first) is the row of the item
\* with index p + k - 1: it ends with the item, it starts with the cursor
\* symbol exactly when it is the first row, and the mark after the cursor's
\* columns is the active one exactly when the item is picked.
CheckboxRowAsClaimed(k) ==
    LET i == cb_checkbox.position + k - 1
        item == cb_checkbox.items[i + 1]
        row == cb_pane.layout[k].text
        n == Len(row)
    IN  /\ n >= Len(item)
        /\ SubSeq(row, n - Len(item) + 1, n) = item
        /\ (n >= Len(cursor) /\ SubSeq(row, 1, Len(cursor)) = cursor)
               <=> k = 1
        /\ (n > Len(cursor) /\ row[Len(cursor) + 1] = active_mark)
               <=> i \in cb_checkbox.picked

C24_CheckboxPaneRows ==
    cb_pane.called =>
        /\ Len(cb_pane.layout) = CheckboxEnd - cb_checkbox.position
        /\ \A k \in 1..Len(cb_pane.layout) : CheckboxRowAsClaimed(k)

\* C24 as create_pane has it: the rows are those of the items with index
\* in [p, min(N, p + h)) at every terminal width, and each row is cut to
\* the terminal width; a row shows the cursor symbol (the first row only),
\* the mark and the item as claimed when the terminal is wide enough for
\* the whole row.
C24_CheckboxPaneRowsCutToWidth ==
    cb_pane.called =>
        /\ Len(cb_pane.layout) = CheckboxEnd - cb_checkbox.position
        /\ \A k \in 1..Len(cb_pane.layout) :
               LET item == cb_checkbox.items[cb_checkbox.position + k]
               IN  /\ Len(cb_pane.layout[k].text) <= cb_size[1]
                   /\ Len(cursor) + 2 + Len(item) <= cb_size[1]
                          => CheckboxRowAsClaimed(k)

\* Two rows of three items shown from position 1 at a terminal wide enough
\* for a whole row, the item at the cursor picked and the next one not.
C24_Witness ==
    /\ cb_pane.called
    /\ Len(cb_checkbox.items) = 3
    /\ cb_checkbox.position = 1
    /\ cb_checkbox.picked = {1}
    /\ cb_size[1] = MaxCols
    /\ Len(cb_pane.layout) = 2
    /\ cb_pane.layout[1].text = <<">", " ", "x", " ", "1">>
    /\ cb_pane.layout[2].text = <<" ", " ", "o", " ", "2">>

(***************************************************************************)
(* C25: for a selector with N >= 1 items and a constant selector_lines     *)
(* value L with 1 <= L <= N, after any sequence of move_up, move_down,     *)
(* move_head and move_tail starting from position 0 and screen_position 0, *)
(* it always holds that 0 <= screen_position <= min(position, L - 1).      *)
(***************************************************************************)
C25_ScreenPositionInWindow ==
    (/\ sel_built = "Ok"
     /\ sel_lines # None
     /\ Len(editor.data) >= 1
     /\ sel_lines[1] >= 1
     /\ sel_lines[1] <= Len(editor.data))
        => /\ 0 <= screen_position
           /\ screen_position <= Min(editor.position, sel_lines[1] - 1)

\* Three move_down of a session with two lines and at least four items:
\* the screen position is at its bound L - 1, below the position.
C25_Witness ==
    /\ sel_built = "Ok"
    /\ sel_lines = Some(2)
    /\ Len(editor.data) >= 4
    /\ sel_trail.actions = <<"move_down", "move_down", "move_down">>
    /\ editor.position = 3
    /\ screen_position = 1

(***************************************************************************)
(* C26: if a selector navigation action (move_up, move_down, move_tail)    *)
(* returns an error because selector_lines() fails, the state is           *)
(* unchanged: both the selector position and screen_position have the      *)
(* values they had before the action.                                      *)
(***************************************************************************)
\* A step of the session in which an action returned an error: every
\* action sets the result, and only a failing selector_lines() makes it an
\* error.
ActionFailed == sel_built = "Ok" /\ sel_result' = "Err"

C26_FailedActionLeavesState ==
    [][ActionFailed =>
           /\ editor'.position = editor.position
           /\ screen_position' = screen_position]_vars

\* What holds of a failed action: the screen position is assigned after
\* selector_lines() has answered, so it is as before; the position is not
\* (to_tail() and next() have run by then).
FailedActionLeavesScreenPosition ==
    [][ActionFailed => screen_position' = screen_position]_vars

(***************************************************************************)
(* C27: for every width and every grapheme sequence (including sequences   *)
(* containing graphemes wider than width), matrixify never emits an empty  *)
(* row unless its output is the single empty row; in particular a dropped  *)
(* over-wide grapheme adds no row of its own.                              *)
(***************************************************************************)
C27_NoEmptyRowButTheSingleOne ==
    mx_done =>
        \/ mx_layout = << <<>> >>
        \/ \A r \in 1..Len(mx_layout) : mx_layout[r] # <<>>

\* What holds of the rows: an empty row can only be the last one, and it
\* is there only when graphemes wider than width were dropped after the
\* row before it was closed; an input all of whose graphemes fit has no
\* empty row unless it is empty.
EmptyRowOnlyLastAfterDrop ==
    mx_done =>
        /\ \A r \in 1..(Len(mx_layout) - 1) : mx_layout[r] # <<>>
        /\ (NoneWiderThan(mx_width, mx_g) /\ mx_g # <<>>)
               => mx_layout[Len(mx_layout)] # <<>>

(***************************************************************************)
(* C28: the row layout computed inline by TextEditor::gen_pane for         *)
(* terminal width w equals matrixify(w, label followed by buffer) for      *)
(* every label, buffer and width: both wrappers produce the same rows.     *)
(***************************************************************************)
C28_GenPaneWrapsAsMatrixify ==
    ed_pane.called =>
        /\ ed_pane.rows = matrixify(ed_size[1], Label \o textbuffer.buf)
        /\ ~ed_pane.panicked => ed_pane.layout = ed_pane.rows

\* A buffer with an emoji and a zero-width character wrapped at width 1:
\* the emoji is dropped after it closed the row of the letter, and the
\* five rows are those of matrixify.
C28_Witness ==
    /\ ed_pane.called
    /\ ~ed_pane.panicked
    /\ ed_size[1] = 1
    /\ to_string(textbuffer.buf) = <<"a", "E", "Z">>
    /\ Len(ed_pane.layout) = 5
    /\ ed_pane.layout = matrixify(1, Label \o textbuffer.buf)

====
